---- MODULE Spec2Model ----
(***************************************************************************)
(* Locator repository with AI self-healing fallback.                       *)
(*                                                                         *)
(*   utils/common_methods.py  CommonMethods: the process-wide locator      *)
(*                            cache, the CSV load / save, update_locator   *)
(*   utils/openai_utils.py    OpenAIUtils: the retrying language-model     *)
(*                            call, the extraction regex and               *)
(*                            verify_and_get_locators_using_ai             *)
(*   tests/conftest.py        setup_pages: the cache invalidation          *)
(*                                                                         *)
(* A Python str is a sequence of one-character strings, so that the CSV    *)
(* writer, the CSV reader, str.strip and the regex are computed character  *)
(* by character.  A file is the sequence of characters it holds.           *)
(***************************************************************************)
EXTENDS Naturals, Integers, Sequences, FiniteSets, TLC

\* ------------------------------------------------------------------------
\* Characters and Python values
\* ------------------------------------------------------------------------
CR == "\r"
LF == "\n"
DQ == "\""
COMMA == ","
SP == " "

\* Python's None.  Every str is a sequence of one-character elements, so this
\* one-element sequence is different from every str.
None == <<"None">>

\* A file that does not exist in ./object_repository/.
NoFile == <<"NoFile">>

\* bool(v) of an Optional[str]: None and "" are falsy.
Truthy(v) == v # None /\ v # <<>>

\* The characters str.strip() removes (those of them the model's texts use).
Whitespace == {SP, LF, CR}

RECURSIVE LStrip(_)
LStrip(s) ==
    IF s = <<>> THEN <<>>
    ELSE IF Head(s) \in Whitespace THEN LStrip(Tail(s)) ELSE s

RECURSIVE RStrip(_)
RStrip(s) ==
    IF s = <<>> THEN <<>>
    ELSE IF s[Len(s)] \in Whitespace THEN RStrip(SubSeq(s, 1, Len(s) - 1)) ELSE s

\* str.strip()
Strip(s) == RStrip(LStrip(s))

\* ------------------------------------------------------------------------
\* csv.writer (dialect excel: delimiter ',', quotechar '"', doublequote,
\* QUOTE_MINIMAL, lineterminator '\r\n'), as _save_locators uses it
\* ------------------------------------------------------------------------
ELEMENT_NAME == <<"E", "l", "e", "m", "e", "n", "t", " ", "N", "a", "m", "e">>
LOCATOR == <<"L", "o", "c", "a", "t", "o", "r">>

\* A field is quoted when it holds the delimiter, the quote character or a
\* character of the line terminator.
NeedsQuote(s) == \E i \in 1..Len(s) : s[i] \in {COMMA, DQ, CR, LF}

RECURSIVE DoubleQuotes(_)
DoubleQuotes(s) ==
    IF s = <<>> THEN <<>>
    ELSE (IF Head(s) = DQ THEN <<DQ, DQ>> ELSE <<Head(s)>>) \o DoubleQuotes(Tail(s))

\* One field as the writer emits it; None is written as the empty string.
WriteField(v) ==
    LET s == IF v = None THEN <<>> ELSE v
    IN  IF NeedsQuote(s) THEN <<DQ>> \o DoubleQuotes(s) \o <<DQ>> ELSE s

\* writer.writerow([key, value])
writerow(key, value) == WriteField(key) \o <<COMMA>> \o WriteField(value) \o <<CR, LF>>

\* The lines _save_locators writes for an ordered dict d, a sequence of
\* <<key, value>> pairs: the fixed header, then one row per entry.
SaveLines(d) ==
    <<writerow(ELEMENT_NAME, LOCATOR)>> \o [i \in 1..Len(d) |-> writerow(d[i][1], d[i][2])]

RECURSIVE Concat(_)
Concat(lines) == IF lines = <<>> THEN <<>> ELSE Head(lines) \o Concat(Tail(lines))

\* ------------------------------------------------------------------------
\* Reading: open(csv_file, 'r') translates newlines, csv.reader splits the
\* text into rows, csv.DictReader names the fields by the header row
\* ------------------------------------------------------------------------
\* Text mode without newline='': "\r\n" and "\r" are both read as "\n".
RECURSIVE UniversalNewlines(_)
UniversalNewlines(t) ==
    IF t = <<>> THEN <<>>
    ELSE IF Head(t) = CR
         THEN <<LF>> \o UniversalNewlines(
                  IF Len(t) >= 2 /\ t[2] = LF THEN SubSeq(t, 3, Len(t)) ELSE Tail(t))
         ELSE <<Head(t)>> \o UniversalNewlines(Tail(t))

\* The csv.reader state machine (non-strict) over the translated text t from
\* position i on: st is the parser state, field the field being collected,
\* row the fields of the record so far, rows the records already returned.
RECURSIVE ReaderRun(_, _, _, _, _, _)
ReaderRun(t, i, st, field, row, rows) ==
    IF i > Len(t)
    THEN IF st = "START_RECORD" THEN rows ELSE Append(rows, Append(row, field))
    ELSE LET c == t[i] IN
         CASE st = "START_RECORD" /\ c = LF ->
                  ReaderRun(t, i + 1, "START_RECORD", <<>>, <<>>, Append(rows, <<>>))
           [] st \in {"START_RECORD", "START_FIELD"} /\ c = DQ ->
                  ReaderRun(t, i + 1, "IN_QUOTED_FIELD", field, row, rows)
           [] st \in {"START_RECORD", "START_FIELD"} /\ c = COMMA ->
                  ReaderRun(t, i + 1, "START_FIELD", <<>>, Append(row, field), rows)
           [] st = "START_FIELD" /\ c = LF ->
                  ReaderRun(t, i + 1, "START_RECORD", <<>>, <<>>, Append(rows, Append(row, field)))
           [] st \in {"START_RECORD", "START_FIELD"} /\ c \notin {LF, DQ, COMMA} ->
                  ReaderRun(t, i + 1, "IN_FIELD", Append(field, c), row, rows)
           [] st = "IN_FIELD" /\ c = LF ->
                  ReaderRun(t, i + 1, "START_RECORD", <<>>, <<>>, Append(rows, Append(row, field)))
           [] st = "IN_FIELD" /\ c = COMMA ->
                  ReaderRun(t, i + 1, "START_FIELD", <<>>, Append(row, field), rows)
           [] st = "IN_FIELD" /\ c \notin {LF, COMMA} ->
                  ReaderRun(t, i + 1, "IN_FIELD", Append(field, c), row, rows)
           [] st = "IN_QUOTED_FIELD" /\ c = DQ ->
                  ReaderRun(t, i + 1, "QUOTE_IN_QUOTED_FIELD", field, row, rows)
           [] st = "IN_QUOTED_FIELD" /\ c # DQ ->
                  ReaderRun(t, i + 1, "IN_QUOTED_FIELD", Append(field, c), row, rows)
           [] st = "QUOTE_IN_QUOTED_FIELD" /\ c = DQ ->
                  ReaderRun(t, i + 1, "IN_QUOTED_FIELD", Append(field, c), row, rows)
           [] st = "QUOTE_IN_QUOTED_FIELD" /\ c = COMMA ->
                  ReaderRun(t, i + 1, "START_FIELD", <<>>, Append(row, field), rows)
           [] st = "QUOTE_IN_QUOTED_FIELD" /\ c = LF ->
                  ReaderRun(t, i + 1, "START_RECORD", <<>>, <<>>, Append(rows, Append(row, field)))
           [] st = "QUOTE_IN_QUOTED_FIELD" /\ c \notin {DQ, COMMA, LF} ->
                  ReaderRun(t, i + 1, "IN_FIELD", Append(field, c), row, rows)

\* csv.reader(file): the rows of the file, an empty line being the row [].
csv_reader(content) == ReaderRun(UniversalNewlines(content), 1, "START_RECORD", <<>>, <<>>, <<>>)

\* row.get(name, "") of the dict DictReader builds from zip(fieldnames, row):
\* a field the row is too short for is None (restval), of two columns of the
\* same name the last one counts, a name that is no column gives the default.
RowGet(fieldnames, row, name) ==
    LET idx == {i \in 1..Len(fieldnames) : fieldnames[i] = name}
    IN  IF idx = {} THEN <<>>
        ELSE IF \E i \in idx : i > Len(row) THEN None
        ELSE row[CHOOSE i \in idx : \A j \in idx : j <= i]

\* locators[key] = value on an ordered dict: an existing key keeps its place.
DictSet(d, key, value) ==
    IF \E i \in 1..Len(d) : d[i][1] = key
    THEN [i \in 1..Len(d) |-> IF d[i][1] = key THEN <<key, value>> ELSE d[i]]
    ELSE Append(d, <<key, value>>)

\* The loop of _load_csv over the data rows from row i on.  A row shorter than
\* the header makes .strip() raise on None: the except clause ends the loop
\* and the entries collected so far are returned.
RECURSIVE LoadRows(_, _, _, _)
LoadRows(fieldnames, rows, i, locs) ==
    IF i > Len(rows) THEN locs
    ELSE IF rows[i] = <<>> THEN LoadRows(fieldnames, rows, i + 1, locs)
    ELSE LET rawKey == RowGet(fieldnames, rows[i], ELEMENT_NAME)
             rawValue == RowGet(fieldnames, rows[i], LOCATOR)
         IN  IF rawKey = None \/ rawValue = None THEN locs
             ELSE LET key == Strip(rawKey)
                      value == Strip(rawValue)
                  IN  LoadRows(fieldnames, rows, i + 1,
                               IF key # <<>> /\ value # <<>>
                               THEN DictSet(locs, key, value) ELSE locs)

\* _load_csv on the content of a file: the ordered dict of its entries, empty
\* when the file is missing or has no header row.
load_csv(content) ==
    IF content = NoFile THEN <<>>
    ELSE LET rows == csv_reader(content)
         IN  IF rows = <<>> THEN <<>> ELSE LoadRows(rows[1], rows, 2, <<>>)

\* The keys of an ordered dict, and dict[key].
DictKeys(d) == {d[i][1] : i \in 1..Len(d)}
DictGet(d, key) == d[CHOOSE i \in 1..Len(d) : d[i][1] = key][2]

\* The ordered dict as a mapping.
AsMap(d) == [k \in DictKeys(d) |-> DictGet(d, k)]

\* dict.update: the entries of new replace or extend those of old.
DictUpdate(old, new) ==
    [k \in (DOMAIN old) \cup (DOMAIN new) |-> IF k \in DOMAIN new THEN new[k] ELSE old[k]]

\* ------------------------------------------------------------------------
\* OpenAIUtils._extract_xpath_from_response: re.compile(r'"(.*?)"').search
\* ------------------------------------------------------------------------
\* The match that starts at the quote at position i: the nearest later quote,
\* provided no "\n" lies between them ('.' does not match a newline).
MatchEnd(r, i) ==
    LET closing == {j \in (i + 1)..Len(r) : r[j] = DQ}
    IN  IF closing = {} THEN 0
        ELSE LET j == CHOOSE m \in closing : \A n \in closing : m <= n
             IN  IF \E n \in (i + 1)..(j - 1) : r[n] = LF THEN 0 ELSE j

extract_xpath_from_response(response) ==
    LET starts == {i \in 1..Len(response) : response[i] = DQ /\ MatchEnd(response, i) # 0}
    IN  IF starts = {} THEN None
        ELSE LET i == CHOOSE m \in starts : \A n \in starts : m <= n
             IN  SubSeq(response, i + 1, MatchEnd(response, i) - 1)

\* ------------------------------------------------------------------------
\* The repository on disk and the inputs of the operations
\* ------------------------------------------------------------------------
LOGIN_ELEMENTS == "Login_Elements.csv"
LANDING_ELEMENTS == "Landing_Elements.csv"
Files == {LOGIN_ELEMENTS, LANDING_ELEMENTS}

\* Element names: txtUsername, ico_Profile.
txtUsername == <<"u">>
ico_Profile == <<"i">>
Keys == {txtUsername, ico_Profile}

\* Login_Elements.csv as checked in.
LoginCsv ==
    ELEMENT_NAME \o <<COMMA>> \o LOCATOR \o <<CR, LF>>
    \o <<"u", COMMA, "#", "a", CR, LF>>

\* Landing_Elements.csv, edited by hand: Unix line ends, an empty line, a
\* padded value, a row without a selector; txtUsername occurs here too, with
\* another selector.
LandingCsv ==
    ELEMENT_NAME \o <<COMMA>> \o LOCATOR \o <<LF>>
    \o <<"i", COMMA, SP, "#", "c", SP, LF>>
    \o <<LF>>
    \o <<"p", COMMA, LF>>
    \o <<"u", COMMA, "#", "d", LF>>

\* What choices[0].message.content of the service can be.
respFix == <<"i", "s", SP, DQ, "#", "y", DQ, LF>>   \* is "#y", then a newline
respNoQuote == <<"#", "y">>                          \* no quoted substring
respEmptyQuote == <<"=", DQ, DQ>>                    \* the first quoted substring is empty
respCr == <<DQ, "a", CR, ",", DQ>>                   \* a carriage return and a comma inside
respBlank == <<SP, LF>>                              \* only whitespace
Contents == {respFix, respNoQuote, respEmptyQuote, respCr, respBlank}

\* The text the retry loop returns when the service answers without choices.
NoResponseGenerated == <<"N", "o", SP, "r", "e", "s", "p", "o", "n", "s", "e", SP,
                         "g", "e", "n", "e", "r", "a", "t", "e", "d", ".">>

\* max_retries of generate_response_new's call.
max_retries == 3

\* AppConstants.ENABLE_OPENAI_SELF_HEALING ("Set to False to disable OpenAI
\* features").  No statement of the program reads it.
ENABLE_OPENAI_SELF_HEALING == FALSE

\* Bound of the model: no resolution attempt starts once update_locator has
\* been invoked this often in the run.
MaxUpdates == 1

VARIABLES
    disk,           \* ./object_repository/: file name -> content or NoFile
    locators,       \* CommonMethods._locators
    loaded_files,   \* CommonMethods._loaded_files
    pc,             \* position of verify_and_get_locators_using_ai
    element,        \* its arguments element and file_name
    file_name,
    locator,        \* its local locator
    attempt,        \* loop index i of _call_openai_with_retries
    response,       \* what generate_response_new returned
    corrected,      \* corrected_locator after the extraction
    heal,           \* history of the attempt in progress
    retry,          \* history of the retry loop: kept while it runs and when it failed
    last,           \* the operation that returned last
    loads,          \* file name -> loads by get_values_from_csv since the last clear
    healed,         \* keys a heal gave a new cached selector since the last clear
    updates,        \* number of update_locator invocations so far
    workers         \* parallel test workers inside update_locator, each with
                    \* its own process and so its own CommonMethods._locators

vars == <<disk, locators, loaded_files, pc, element, file_name, locator, attempt,
          response, corrected, heal, retry, last, loads, healed, updates, workers>>

\* Nothing has happened yet in an attempt.
NoHeal == [disk0 |-> <<>>, locators0 |-> <<>>, probe |-> "none", captured |-> FALSE,
           called |-> FALSE, response |-> None, extracted |-> FALSE, updated |-> FALSE,
           save |-> "none", result |-> None]

\* No service attempt, no failed attempt and no sleep yet.
NoRetry == [calls |-> 0, raised |-> 0, sleeps |-> 0]

\* The test workers that can run at the same time on one checkout.
Workers == {1, 2}

\* A worker that is not inside update_locator: its arguments, its dict, what
\* it read from the file, how its save ends; and for the properties, whether
\* it reloaded before any worker opened the file for writing, whether it
\* reloaded after another worker had finished, whether its save overlapped
\* another one, and its place among the completed writes.
IdleWorker == [pc |-> "idle", element_name |-> None, locator |-> None, file_name |-> "none",
               locators |-> <<>>, read |-> <<>>, outcome |-> <<"none", 0>>,
               early |-> FALSE, sequel |-> FALSE, overlapped |-> FALSE, wrote |-> 0]

Init ==
    /\ disk \in {d \in [Files -> {LoginCsv, LandingCsv, NoFile}] :
                    /\ d[LOGIN_ELEMENTS] = LoginCsv
                    /\ d[LANDING_ELEMENTS] \in {LandingCsv, NoFile}}
    /\ locators = <<>>
    /\ loaded_files = {}
    /\ pc = "idle"
    /\ element = None
    /\ file_name = "none"
    /\ locator = None
    /\ attempt = 0
    /\ response = None
    /\ corrected = None
    /\ heal = NoHeal
    /\ retry = NoRetry
    /\ last = [op |-> "none"]
    /\ loads = [f \in Files |-> 0]
    /\ healed = {}
    /\ updates = 0
    /\ workers = [w \in Workers |-> IdleWorker]

\* ------------------------------------------------------------------------
\* CommonMethods
\* ------------------------------------------------------------------------
\* get_values_from_csv, the cache after the load step: the file is loaded and
\* merged in unless it is in _loaded_files.
CacheAfterLoad(f) ==
    IF f \in loaded_files THEN locators
    ELSE DictUpdate(locators, AsMap(load_csv(disk[f])))

\* The load step without _loaded_files.add(file_name).
LoadedAfterForgets(f) == loaded_files

\* _loaded_files after get_values_from_csv(_, f).
LoadedAfter(f) == loaded_files \cup {f}

\* A lookup that answers a missing key with the empty string.
LookupDefaultsEmpty(cache, k) == IF k \in DOMAIN cache THEN cache[k] ELSE <<>>

\* get_values_from_csv, the lookup: the cached selector or None.
Lookup(cache, k) == IF k \in DOMAIN cache THEN cache[k] ELSE None

\* An update that writes the new entry alone.
UpdatedDictKeyOnly(k, s, f) == <<<<k, s>>>>

\* The ordered dict update_locator builds: the file loaded afresh, with
\* element_name set to locator.
UpdatedDict(k, s, f) == DictSet(load_csv(disk[f]), k, s)

\* How _save_locators can end for a dict of n entries: every line written,
\* open() raising, or an error after w < n + 1 lines were written.
SaveOutcomes(n) == {<<"ok", n + 1>>, <<"open_error", 0>>} \cup {<<"write_error", w>> : w \in 0..n}

\* _save_locators: the content of the file afterwards.
save_locators(d, old, o) ==
    IF o[1] = "open_error" THEN old
    ELSE Concat(SubSeq(SaveLines(d), 1, o[2]))

\* get_values_from_csv(k, f) called by a page object.
Resolve(k, f) ==
    /\ pc = "idle"
    /\ LET cache == CacheAfterLoad(f)
       IN  /\ locators' = cache
           /\ last' = [op |-> "resolve", key |-> k, file |-> f,
                       result |-> Lookup(cache, k),
                       load |-> f \notin loaded_files,
                       fresh |-> last.op = "invalidate",
                       healed |-> last.op = "invalidate" /\ k \in last.healed]
    /\ loaded_files' = LoadedAfter(f)
    /\ loads' = IF f \in loaded_files THEN loads ELSE [loads EXCEPT ![f] = @ + 1]
    /\ UNCHANGED <<disk, pc, element, file_name, locator, attempt, response, corrected,
                   heal, retry, healed, updates,
                   workers>>

\* setup_pages without _loaded_files.clear().
InvalidateKeepsLoaded ==
    /\ pc = "idle"
    /\ locators' = <<>>
    /\ loaded_files' = loaded_files
    /\ loads' = loads
    /\ healed' = {}
    /\ last' = [op |-> "invalidate", healed |-> healed]
    /\ UNCHANGED <<disk, pc, element, file_name, locator, attempt, response, corrected,
                   heal, retry, updates,
                   workers>>

\* setup_pages: _locators.clear(); _loaded_files.clear().
Invalidate ==
    /\ pc = "idle"
    /\ locators' = <<>>
    /\ loaded_files' = {}
    /\ loads' = [f \in Files |-> 0]
    /\ healed' = {}
    /\ last' = [op |-> "invalidate", healed |-> healed]
    /\ UNCHANGED <<disk, pc, element, file_name, locator, attempt, response, corrected,
                   heal, retry, updates,
                   workers>>

\* ------------------------------------------------------------------------
\* OpenAIUtils.verify_and_get_locators_using_ai, one step per call it waits
\* for: the lookup, the probe, the DOM capture, each service attempt and
\* each sleep of the retry loop, the extraction, the commit, the return
\* ------------------------------------------------------------------------
\* What wait_for_selector / is_visible do: the element is visible, it is
\* attached but not visible, the wait times out, the driver raises.
ProbeOutcomes == {"visible", "hidden", "timeout", "error"}

\* The return statement is reached with result; h is the history so far.
Return(result, h) ==
    /\ pc' = "done"
    /\ heal' = [h EXCEPT !.result = result]

\* A repair that cannot get a response falling back to the selector that
\* failed the probe.
GiveUpStale(h) == Return(locator, h)

\* The repair ends without a response: generate_response_new has returned None,
\* the if block is skipped and the function returns None.
GiveUp(h) == Return(None, h)

\* The retry loop giving up one failure later.
LastAttemptOffByOne(a) == a = max_retries

\* i == max_retries - 1
LastAttempt(a) == a = max_retries - 1

\* An attempt that probes the page without checking what the lookup returned.
StartProbesAbsent(k, f) ==
    /\ pc = "idle"
    /\ updates < MaxUpdates
    /\ LET cache == CacheAfterLoad(f)
       IN  /\ locators' = cache
           /\ locator' = Lookup(cache, k)
           /\ pc' = "probing"
           /\ heal' = [NoHeal EXCEPT !.disk0 = disk, !.locators0 = cache]
    /\ loaded_files' = LoadedAfter(f)
    /\ loads' = IF f \in loaded_files THEN loads ELSE [loads EXCEPT ![f] = @ + 1]
    /\ element' = k
    /\ file_name' = f
    /\ UNCHANGED <<disk, attempt, response, corrected, retry, last, healed, updates, workers>>

\* locator = get_values_from_csv(element, file_name); if not locator: return None
Start(k, f) ==
    /\ pc = "idle"
    /\ updates < MaxUpdates
    /\ LET cache == CacheAfterLoad(f)
           h == [NoHeal EXCEPT !.disk0 = disk, !.locators0 = cache]
       IN  /\ locators' = cache
           /\ locator' = Lookup(cache, k)
           /\ IF Truthy(Lookup(cache, k))
              THEN pc' = "probing" /\ heal' = h
              ELSE Return(None, h)
    /\ loaded_files' = LoadedAfter(f)
    /\ loads' = IF f \in loaded_files THEN loads ELSE [loads EXCEPT ![f] = @ + 1]
    /\ element' = k
    /\ file_name' = f
    /\ UNCHANGED <<disk, attempt, response, corrected, retry, last, healed, updates, workers>>

\* A probe whose success does not end the attempt: the repair runs for a
\* visible element too.
ProbeRepairsVisible(o) ==
    /\ pc = "probing"
    /\ CASE o = "visible" -> pc' = "capturing" /\ heal' = [heal EXCEPT !.probe = "visible"]
         [] o = "hidden" -> Return(None, [heal EXCEPT !.probe = "hidden"])
         [] o \in {"timeout", "error"} ->
                /\ pc' = "capturing"
                /\ heal' = [heal EXCEPT !.probe = "raised"]
    /\ UNCHANGED <<disk, locators, loaded_files, element, file_name, locator, attempt,
                   response, corrected, retry, last, loads, healed, updates,
                   workers>>

\* await page.wait_for_selector(locator, timeout=10000);
\* if await page.is_visible(locator): return locator
\* A probe that raises enters the except clause, which catches a timeout and
\* any other error alike; one that finds the element attached but not visible
\* leaves the try statement and returns None.
Probe(o) ==
    /\ pc = "probing"
    /\ CASE o = "visible" -> Return(locator, [heal EXCEPT !.probe = "visible"])
         [] o = "hidden" -> Return(None, [heal EXCEPT !.probe = "hidden"])
         [] o \in {"timeout", "error"} ->
                /\ pc' = "capturing"
                /\ heal' = [heal EXCEPT !.probe = "raised"]
    /\ UNCHANGED <<disk, locators, loaded_files, element, file_name, locator, attempt,
                   response, corrected, retry, last, loads, healed, updates,
                   workers>>

\* A DOM capture whose error leaves the function as an exception.
CaptureErrorPropagates(ok) ==
    /\ pc = "capturing"
    /\ IF ok
       THEN pc' = "calling" /\ heal' = [heal EXCEPT !.captured = TRUE]
       ELSE pc' = "raised" /\ heal' = heal
    /\ UNCHANGED <<disk, locators, loaded_files, element, file_name, locator, attempt,
                   response, corrected, retry, last, loads, healed, updates,
                   workers>>

\* dom_content = await page.content(): when it raises, the outer except
\* clause logs the error and the function returns None.
Capture(ok) ==
    /\ pc = "capturing"
    /\ IF ok
       THEN pc' = "calling" /\ heal' = [heal EXCEPT !.captured = TRUE]
       ELSE Return(None, heal)
    /\ UNCHANGED <<disk, locators, loaded_files, element, file_name, locator, attempt,
                   response, corrected, retry, last, loads, healed, updates,
                   workers>>

\* What one client.chat.completions.create can do: raise, answer without
\* choices, or answer with a content.
ServiceOutcomes == {<<"raise", <<>>>>, <<"no_choices", <<>>>>} \cup {<<"content", c>> : c \in Contents}

\* One iteration of the loop of _call_openai_with_retries.  A response ends
\* the loop.  The last failed attempt raises RuntimeError, which
\* generate_response_new turns into None; the caller then skips the if block
\* and returns None.
Attempt(o) ==
    /\ pc = "calling"
    /\ CASE o[1] = "content" ->
                /\ response' = Strip(o[2])
                /\ pc' = "extracting"
                /\ heal' = [heal EXCEPT !.called = TRUE, !.response = Strip(o[2])]
                /\ attempt' = 0
                /\ retry' = NoRetry
         [] o[1] = "no_choices" ->
                /\ response' = NoResponseGenerated
                /\ pc' = "extracting"
                /\ heal' = [heal EXCEPT !.called = TRUE, !.response = NoResponseGenerated]
                /\ attempt' = 0
                /\ retry' = NoRetry
         [] o[1] = "raise" ->
                /\ response' = None
                /\ retry' = [retry EXCEPT !.calls = @ + 1, !.raised = @ + 1]
                /\ attempt' = attempt
                /\ IF LastAttempt(attempt)
                   THEN GiveUp([heal EXCEPT !.called = TRUE])
                   ELSE pc' = "sleeping" /\ heal' = [heal EXCEPT !.called = TRUE]
    /\ UNCHANGED <<disk, locators, loaded_files, element, file_name, locator,
                   corrected, last, loads, healed, updates,
                   workers>>

\* time.sleep(2), then the next iteration.
Sleep ==
    /\ pc = "sleeping"
    /\ pc' = "calling"
    /\ attempt' = attempt + 1
    /\ retry' = [retry EXCEPT !.sleeps = @ + 1]
    /\ UNCHANGED <<disk, locators, loaded_files, element, file_name, locator, response,
                   corrected, heal, last, loads, healed, updates,
                   workers>>

\* An extraction that asks the service again when it finds no selector.
ExtractAsksAgain ==
    /\ pc = "extracting"
    /\ IF Truthy(response) /\ extract_xpath_from_response(response) # None
       THEN /\ corrected' = extract_xpath_from_response(response)
            /\ pc' = "committing"
            /\ heal' = [heal EXCEPT !.extracted = TRUE]
       ELSE /\ corrected' = None
            /\ pc' = "calling"
            /\ heal' = heal
    /\ UNCHANGED <<disk, locators, loaded_files, element, file_name, locator, attempt,
                   response, retry, last, loads, healed, updates,
                   workers>>

\* if corrected_locator:
\*     corrected_locator = self._extract_xpath_from_response(corrected_locator)
Extract ==
    /\ pc = "extracting"
    /\ IF Truthy(response)
       THEN /\ corrected' = extract_xpath_from_response(response)
            /\ pc' = "committing"
            /\ heal' = [heal EXCEPT !.extracted = TRUE]
       ELSE /\ corrected' = response
            /\ Return(None, heal)
    /\ UNCHANGED <<disk, locators, loaded_files, element, file_name, locator, attempt,
                   response, retry, last, loads, healed, updates,
                   workers>>

\* A commit that lets a failed save end the attempt without a selector.
CommitFailsWithSave(o) ==
    /\ pc = "committing"
    /\ LET d == UpdatedDict(element, corrected, file_name)
       IN  /\ locators' = AsMap(d)
           /\ disk' = [disk EXCEPT ![file_name] = save_locators(d, disk[file_name], o)]
    /\ updates' = updates + 1
    /\ healed' = healed \cup {element}
    /\ Return(IF o[1] = "ok" THEN corrected ELSE None,
              [heal EXCEPT !.updated = TRUE, !.save = o[1]])
    /\ UNCHANGED <<loaded_files, element, file_name, locator, attempt, response,
                   corrected, retry, last, loads,
                   workers>>

\* CommonMethods.update_locator(element, corrected_locator, file_name)
\* return corrected_locator
Commit(o) ==
    /\ pc = "committing"
    /\ LET d == UpdatedDict(element, corrected, file_name)
       IN  /\ locators' = AsMap(d)
           /\ disk' = [disk EXCEPT ![file_name] = save_locators(d, disk[file_name], o)]
    /\ updates' = updates + 1
    /\ healed' = healed \cup {element}
    /\ Return(corrected, [heal EXCEPT !.updated = TRUE, !.save = o[1]])
    /\ UNCHANGED <<loaded_files, element, file_name, locator, attempt, response,
                   corrected, retry, last, loads,
                   workers>>

\* The caller has the result; the locals of the call are gone.
Done ==
    /\ pc = "done"
    /\ pc' = "idle"
    /\ last' = [op |-> "heal", result |-> heal.result]
    /\ element' = None
    /\ file_name' = "none"
    /\ locator' = None
    /\ attempt' = 0
    /\ response' = None
    /\ corrected' = None
    /\ heal' = NoHeal
    /\ retry' = NoRetry
    /\ UNCHANGED <<disk, locators, loaded_files, loads, healed, updates, workers>>

\* The commit with each way the save can end for the dict it writes.
CommitStep ==
    /\ pc = "committing"
    /\ \E o \in SaveOutcomes(Len(UpdatedDict(element, corrected, file_name))) : Commit(o)

Next ==
    \/ \E k \in Keys, f \in Files : Resolve(k, f)
    \/ Invalidate
    \/ \E k \in Keys, f \in Files : Start(k, f)
    \/ \E o \in ProbeOutcomes : Probe(o)
    \/ \E ok \in BOOLEAN : Capture(ok)
    \/ \E o \in ServiceOutcomes : Attempt(o)
    \/ Sleep
    \/ Extract
    \/ CommitStep
    \/ Done

Spec == Init /\ [][Next]_vars

\* A step of the attempt in progress before the commit.  Each of them waits
\* for a call that returns or raises within its time limit:
\* wait_for_selector(timeout=10000), page.content(), the client built with
\* timeout=60.0, time.sleep(2).
HealStep ==
    \/ \E o \in ProbeOutcomes : Probe(o)
    \/ \E ok \in BOOLEAN : Capture(ok)
    \/ \E o \in ServiceOutcomes : Attempt(o)
    \/ Sleep
    \/ Extract

\* Weak fairness of the commit, written out: CommitStep is enabled exactly
\* when pc = "committing" (the save has an outcome for every dict, and the
\* step moves pc), so the condition is that the attempt is not at the commit
\* for ever without committing.  update_locator makes no call that waits.
CommitCompletes == []<>(pc # "committing") \/ []<><<CommitStep>>_vars

\* The program with every call of an attempt in progress completing.
FairSpec == Spec /\ WF_vars(HealStep) /\ CommitCompletes

\* ------------------------------------------------------------------------
\* _load_csv on the files a repository can hold: the header, then up to
\* MaxRows lines as they are written by hand or by a spreadsheet
\* ------------------------------------------------------------------------
lineSelector == <<"u", COMMA, "#", "a">>                      \* u,#a
linePadded == <<SP, "i", SP, COMMA, SP, "#", "c", SP>>        \* padded with blanks
lineAgain == <<"u", COMMA, "#", "d">>                         \* u once more
lineNoSelector == <<"i", COMMA>>                              \* the selector is empty
lineNoKey == <<COMMA, "#", "a">>                              \* the key is empty
lineEmpty == <<>>                                             \* an empty line
lineOneField == <<"i">>                                       \* no comma: one field
lineQuoted == <<DQ, "i", DQ, COMMA, DQ, "a", COMMA, "b", DQ>> \* quoted fields
DataLines == {lineSelector, linePadded, lineAgain, lineNoSelector, lineNoKey,
              lineEmpty, lineOneField, lineQuoted}

\* Bound of the model: the number of lines after the header.
MaxRows == 2

\* The file with the header row and the given lines, each ended by "\n".
CsvText(body) ==
    ELEMENT_NAME \o <<COMMA>> \o LOCATOR \o <<LF>>
    \o Concat([i \in 1..Len(body) |-> body[i] \o <<LF>>])

CsvTexts == {CsvText(body) : body \in UNION {[1..n -> DataLines] : n \in 0..MaxRows}}

\* Login_Elements.csv is any of the texts, Landing_Elements.csv is missing.
LoadInit ==
    /\ disk \in {d \in [Files -> CsvTexts \cup {NoFile}] :
                    d[LOGIN_ELEMENTS] # NoFile /\ d[LANDING_ELEMENTS] = NoFile}
    /\ locators = <<>>
    /\ loaded_files = {}
    /\ pc = "idle"
    /\ element = None
    /\ file_name = "none"
    /\ locator = None
    /\ attempt = 0
    /\ response = None
    /\ corrected = None
    /\ heal = NoHeal
    /\ retry = NoRetry
    /\ last = [op |-> "none"]
    /\ loads = [f \in Files |-> 0]
    /\ healed = {}
    /\ updates = 0
    /\ workers = [w \in Workers |-> IdleWorker]

\* Page objects looking selectors up, and the fixture clearing the cache.
LoadNext ==
    \/ \E k \in Keys, f \in Files : Resolve(k, f)
    \/ Invalidate

LoadSpec == LoadInit /\ [][LoadNext]_vars

\* ------------------------------------------------------------------------
\* update_locator run by parallel test workers on the same
\* ./object_repository/: each worker is a process with its own
\* CommonMethods._locators; the files are shared and nothing locks them.
\* Inside one process update_locator has no await and runs as one piece.
\* ------------------------------------------------------------------------
\* The selectors an update carries: what the extraction gives for respFix
\* and for respCr.
NewSelectors == {extract_xpath_from_response(Strip(c)) : c \in {respFix, respCr}}

\* Other workers.
Others(w) == Workers \ {w}

\* What a file holds after new was written from its start over old: a
\* writer that opened the file before another one wrote does not cut off
\* what that one wrote beyond its own text.
WriteOver(old, new) == new \o SubSeq(old, Len(new) + 1, Len(old))

\* An update that skips the reload and writes from an empty dict.
WorkerReloadSkipped(w, k, s, f) ==
    /\ workers[w].pc = "idle"
    /\ workers' = [workers EXCEPT ![w] =
           [@ EXCEPT !.pc = "reloaded", !.element_name = k, !.locator = s, !.file_name = f,
                     !.locators = <<>>,
                     !.read = disk[f],
                     !.early = \A v \in Others(w) : workers[v].pc \in {"idle", "reloaded"},
                     !.sequel = \E v \in Others(w) : workers[v].pc = "done"]]
    /\ UNCHANGED <<disk, locators, loaded_files, pc, element, file_name, locator, attempt,
                   response, corrected, heal, retry, last, loads, healed, updates>>

\* CommonMethods._locators = CommonMethods._load_csv(file_name)
WorkerReload(w, k, s, f) ==
    /\ workers[w].pc = "idle"
    /\ workers' = [workers EXCEPT ![w] =
           [@ EXCEPT !.pc = "reloaded", !.element_name = k, !.locator = s, !.file_name = f,
                     !.locators = load_csv(disk[f]),
                     !.read = disk[f],
                     !.early = \A v \in Others(w) : workers[v].pc \in {"idle", "reloaded"},
                     !.sequel = \E v \in Others(w) : workers[v].pc = "done"]]
    /\ UNCHANGED <<disk, locators, loaded_files, pc, element, file_name, locator, attempt,
                   response, corrected, heal, retry, last, loads, healed, updates>>

\* The dict of worker w with its element_name set to its locator.
WorkerDict(w) == DictSet(workers[w].locators, workers[w].element_name, workers[w].locator)

\* CommonMethods._locators[element_name] = locator, then _save_locators as
\* far as open(csv_file, 'w', ...): the file is created or emptied, unless
\* open() raises, which the except clause logs.  o is how the save will end.
WorkerOpen(w, o) ==
    LET me == workers[w]
        d == WorkerDict(w)
    IN  /\ me.pc = "reloaded"
        /\ IF o[1] = "open_error"
           THEN /\ disk' = disk
                /\ workers' = [workers EXCEPT ![w] =
                       [@ EXCEPT !.pc = "done", !.locators = d, !.outcome = o]]
           ELSE /\ disk' = [disk EXCEPT ![me.file_name] = <<>>]
                /\ workers' = [v \in Workers |->
                       IF v = w
                       THEN [me EXCEPT !.pc = "opened", !.locators = d, !.outcome = o,
                                       !.overlapped = \E u \in Others(w) :
                                           /\ workers[u].pc = "opened"
                                           /\ workers[u].file_name = me.file_name]
                       ELSE IF workers[v].pc = "opened" /\ workers[v].file_name = me.file_name
                            THEN [workers[v] EXCEPT !.overlapped = TRUE]
                            ELSE workers[v]]
        /\ UNCHANGED <<locators, loaded_files, pc, element, file_name, locator, attempt,
                       response, corrected, heal, retry, last, loads, healed, updates>>

\* The rows reach the file when the with block closes it (or as many lines
\* as were written before a write raised).
WorkerWrite(w) ==
    LET me == workers[w]
    IN  /\ me.pc = "opened"
        /\ disk' = [disk EXCEPT ![me.file_name] =
               WriteOver(@, save_locators(me.locators, @, me.outcome))]
        /\ workers' = [workers EXCEPT ![w] =
               [@ EXCEPT !.pc = "done",
                         !.wrote = 1 + Cardinality({v \in Workers : workers[v].wrote > 0})]]
        /\ UNCHANGED <<locators, loaded_files, pc, element, file_name, locator, attempt,
                       response, corrected, heal, retry, last, loads, healed, updates>>

UpdateNext ==
    \/ \E w \in Workers, k \in Keys, s \in NewSelectors, f \in Files : WorkerReload(w, k, s, f)
    \/ \E w \in Workers : \E o \in SaveOutcomes(Len(WorkerDict(w))) : WorkerOpen(w, o)
    \/ \E w \in Workers : WorkerWrite(w)

\* Two workers updating the repository Init describes.
UpdateSpec == Init /\ [][UpdateNext]_vars

\* ------------------------------------------------------------------------
\* Properties
\* ------------------------------------------------------------------------
\* The selector file f holds for key k, None when it holds none.
PersistedSelector(f, k) == Lookup(AsMap(load_csv(disk[f])), k)

\* What get_values_from_csv(k, f) returns right after the cache was cleared.
ResolveFresh(k, f) == Lookup(DictUpdate(<<>>, AsMap(load_csv(disk[f]))), k)

\* The attempt has reached its return statement after a probe that raised.
ProbeFailed == pc = "done" /\ heal.probe = "raised"

\* C1: when the probe fails and the response holds no double-quoted
\* substring (the text for an answer without choices included), the attempt
\* returns None, update_locator is not invoked and every source file is
\* as it was when the attempt started.
C1_NoQuoteLeavesSourceUnchanged ==
    (ProbeFailed /\ heal.response # None
                 /\ extract_xpath_from_response(heal.response) = None)
        => (heal.result = None /\ ~heal.updated /\ disk = heal.disk0)

\* C2: no step other than the clearing of the cache removes a key from the
\* cache: the keys cached before a step are cached after it.
C2_CacheNeverShrinks ==
    [][(pc = "idle" /\ pc' = "idle" /\ last'.op = "invalidate")
       \/ DOMAIN locators \subseteq DOMAIN locators']_vars

\* C3: after update_locator has saved a non-empty selector without leading
\* or trailing whitespace, clearing the cache and resolving the key in that
\* file returns exactly that selector.
C3_RoundTrip ==
    (pc = "done" /\ heal.updated /\ heal.save = "ok"
                 /\ Truthy(corrected) /\ Strip(corrected) = corrected)
        => ResolveFresh(element, file_name) = corrected

\* C4: between two clearings of the cache get_values_from_csv loads a file at
\* most once: exactly once when the file is in _loaded_files, not at all
\* otherwise, whether the file exists or not.
C4_LoadOnce ==
    \A f \in Files : loads[f] <= 1 /\ (f \in loaded_files <=> loads[f] = 1)

\* C4 witness: a missing file was loaded once, and a later lookup in it did
\* not load it again.
C4_Witness ==
    \E f \in Files :
        /\ disk[f] = NoFile
        /\ loads[f] = 1
        /\ last.op = "resolve" /\ last.file = f /\ ~last.load

\* C5: the first lookup after the cache was cleared returns the selector the
\* file holds for the key at that moment (None when it holds none).
C5_InvalidateRereads ==
    (pc = "idle" /\ last.op = "resolve" /\ last.fresh)
        => last.result = PersistedSelector(last.file, last.key)

\* C5 witness: a heal had replaced the cached selector of the key, the cache
\* was cleared, and the lookup after that found a selector.
C5_Witness ==
    /\ pc = "idle"
    /\ last.op = "resolve" /\ last.fresh /\ last.healed
    /\ last.result # None

\* C6: when the probe finds the element visible, the service was not called,
\* the selector looked up at the start is returned, and the source files and
\* the cache are as they were after that lookup.
C6_VisibleProbeReturnsOriginal ==
    /\ heal.called => heal.probe = "raised"
    /\ (pc = "done" /\ heal.probe = "visible")
           => /\ heal.result = Lookup(heal.locators0, element)
              /\ Truthy(heal.result)
              /\ ~heal.called /\ ~heal.updated
              /\ disk = heal.disk0
              /\ locators = heal.locators0

\* C6 witness: an attempt has returned after a successful probe.
C6_Witness == pc = "done" /\ heal.probe = "visible" /\ Truthy(heal.result)

\* C7: when the probe fails, the response holds a double-quoted substring and
\* the save succeeds, the attempt returns the first quoted substring and the
\* source file holds it as the selector of the key.
C7_QuotedSubstringPersisted ==
    (ProbeFailed /\ heal.response # None /\ heal.save = "ok"
                 /\ extract_xpath_from_response(heal.response) # None)
        => /\ heal.result = extract_xpath_from_response(heal.response)
           /\ PersistedSelector(file_name, element) = heal.result

\* C8: when the probe fails and all max_retries service attempts raise, the
\* attempt returns None, and the source files and the cache are as they were
\* after the lookup.
C8_ServiceFailureReturnsAbsent ==
    (ProbeFailed /\ retry.raised = max_retries)
        => /\ heal.result = None
           /\ ~heal.updated
           /\ disk = heal.disk0
           /\ locators = heal.locators0

\* C8 witness: an attempt has returned after three failed service attempts.
C8_Witness == ProbeFailed /\ retry.raised = max_retries /\ heal.called

\* C9, the states of the retry loop: at most max_retries attempts; every
\* attempt made while the loop runs has raised; there was one sleep per failed
\* attempt before an attempt, and one less after the failed attempt; the loop
\* has failed exactly when max_retries attempts raised, after max_retries - 1
\* sleeps; behind the loop there is a response exactly when it has not failed.
RetryStates ==
    /\ retry.calls <= max_retries
    /\ retry.raised = retry.calls
    /\ pc = "calling" => (attempt = retry.calls /\ attempt < max_retries
                          /\ retry.sleeps = retry.raised)
    /\ pc = "sleeping" => (retry.raised < max_retries /\ retry.sleeps = retry.raised - 1)
    /\ retry.raised = max_retries
           => (pc = "done" /\ retry.sleeps = max_retries - 1 /\ heal.result = None)
    /\ pc \in {"extracting", "committing"} => (heal.called /\ heal.response # None)
    /\ (pc = "done" /\ heal.called)
           => (heal.response = None <=> retry.raised = max_retries)

\* C9, the steps of the retry loop: an attempt either returns a response,
\* which ends the loop after 1 to max_retries attempts, or raises, which is
\* followed by a sleep unless it was attempt number max_retries.
RetrySteps ==
    /\ (pc = "calling" /\ pc' = "extracting")
           => (response' # None /\ heal'.called /\ retry.calls + 1 \in 1..max_retries)
    /\ (pc = "calling" /\ pc' = "sleeping")
           => (retry'.raised = retry.raised + 1 /\ retry'.raised < max_retries)
    /\ (pc = "calling" /\ pc' = "done")
           => (retry'.raised = max_retries /\ heal'.response = None)
    /\ pc = "calling" => pc' \in {"calling", "extracting", "sleeping", "done"}
    /\ pc' = "calling" => pc \in {"calling", "capturing", "sleeping"}

\* C9: one repair makes 1 to max_retries service attempts, an attempt only
\* after every earlier one raised; the first response ends the loop; a sleep
\* follows each failed attempt but the last; the call fails exactly when all
\* max_retries attempts raised.
C9_RetryPolicy == [](RetryStates) /\ [][RetrySteps]_vars

\* C9 witness: the third attempt is about to be made, after two failures
\* and two sleeps.
C9_Witness == pc = "calling" /\ attempt = max_retries - 1 /\ retry.sleeps = 2 /\ retry.raised = 2

\* C10: whatever an attempt whose save did not fail has done, every key a
\* source file held with a non-empty selector when the attempt started is
\* still held by that file with a non-empty selector, and a lookup after
\* clearing the cache finds it.
C10_StorageNeverDegraded ==
    (pc = "done" /\ heal.save \in {"none", "ok"})
        => \A f \in Files :
               \A k \in DictKeys(load_csv(heal.disk0[f])) :
                   /\ k \in DictKeys(load_csv(disk[f]))
                   /\ ResolveFresh(k, f) # None

\* C11: get_values_from_csv returns None for a key that is not in the cache
\* after the load step, and the cached selector otherwise; a missing file
\* loads as the empty mapping, so that with no other file loaded every key
\* looked up in it gives None.
C11_AbsentKeyResolvesToNone ==
    (pc = "idle" /\ last.op = "resolve")
        => /\ last.file \in loaded_files
           /\ last.key \notin DOMAIN locators => last.result = None
           /\ last.key \in DOMAIN locators => last.result = locators[last.key]
           /\ (disk[last.file] = NoFile /\ loaded_files = {last.file})
                  => (locators = <<>> /\ last.result = None)

\* C11 witness: a key was looked up in a missing file, the only file loaded,
\* and the lookup returned None.
C11_Witness ==
    /\ pc = "idle" /\ last.op = "resolve" /\ last.load
    /\ disk[last.file] = NoFile /\ loaded_files = {last.file}
    /\ last.result = None

\* The steps of an attempt after the lookup.
InProgress == pc \in {"probing", "capturing", "calling", "sleeping", "extracting", "committing"}

\* C12: when the lookup at the start of an attempt gives no selector, the
\* attempt returns None at once: the page is not probed, the DOM is not
\* captured, the service is not called, update_locator is not invoked, and
\* the source files and the cache are as the lookup left them.
C12_AbsentLookupFailsAtOnce ==
    /\ InProgress => Truthy(locator)
    /\ (pc = "done" /\ ~Truthy(locator))
           => /\ heal.result = None
              /\ heal.probe = "none" /\ ~heal.captured /\ ~heal.called
              /\ ~heal.extracted /\ ~heal.updated /\ heal.save = "none"
              /\ retry = NoRetry
              /\ disk = heal.disk0
              /\ locators = heal.locators0

\* C12 witness: an attempt for a key the cache does not hold has returned.
C12_Witness ==
    /\ pc = "done" /\ locator = None /\ element \notin DOMAIN locators
    /\ heal.result = None /\ heal.probe = "none"

\* The entries _load_csv reads from a file content, as a mapping.
Entries(content) == AsMap(load_csv(content))

\* update_locator has returned after a save that wrote every line.
Updated == pc = "done" /\ heal.updated /\ heal.save = "ok"

\* C13: after update_locator(key, selector, file) has saved, the file holds
\* the header and one row per entry of the mapping loaded from that file just
\* before with key set to selector; every other entry the file held reads
\* back as it was, the file has no key it did not hold other than key (none
\* of the keys cached from another file), and every other file is as it was.
C13_UpdateIsReloadThenWrite ==
    Updated =>
        LET before == load_csv(heal.disk0[file_name])
        IN  /\ disk[file_name] = Concat(SaveLines(DictSet(before, element, corrected)))
            /\ \A k \in DictKeys(before) \ {element} :
                   PersistedSelector(file_name, k) = Entries(heal.disk0[file_name])[k]
            /\ DictKeys(load_csv(disk[file_name])) \subseteq DictKeys(before) \cup {element}
            /\ \A g \in Files \ {file_name} : disk[g] = heal.disk0[g]

\* C13 witness: an update of a file that holds another entry has saved
\* while the cache held a key of the other file that this file does not hold.
C13_Witness ==
    /\ Updated /\ Truthy(corrected)
    /\ \E k \in DictKeys(load_csv(disk[file_name])) : k # element
    /\ \E k \in DOMAIN heal.locators0 : k \notin DictKeys(load_csv(heal.disk0[file_name]))

\* C14: whenever an attempt returns a selector it has committed, the cache
\* and the source file both map the key to that selector at the return.
C14_WriteThroughOnCommit ==
    (pc = "done" /\ heal.updated /\ Truthy(heal.result))
        => /\ Lookup(locators, element) = heal.result
           /\ PersistedSelector(file_name, element) = heal.result

\* C15: when the save of the commit fails, the attempt still returns the
\* corrected selector, the one extracted from the response, and the cache
\* maps the key to it.
C15_PersistFailureIsBestEffort ==
    (pc = "done" /\ heal.updated /\ heal.save \in {"open_error", "write_error"})
        => /\ heal.result = corrected
           /\ corrected = extract_xpath_from_response(heal.response)
           /\ element \in DOMAIN locators
           /\ locators[element] = corrected

\* C15 witness: a commit whose save broke off after the header has returned a
\* non-empty selector, and the file has lost its entries.
C15_Witness ==
    /\ pc = "done" /\ heal.save = "write_error" /\ Truthy(heal.result)
    /\ disk[file_name] # heal.disk0[file_name]
    /\ load_csv(disk[file_name]) = <<>>

\* C16: an attempt never leaves verify_and_get_locators_using_ai as an
\* exception: it is at one of the steps of the function or at its return
\* statement, where the result is None, the selector looked up or the
\* selector extracted; an error of the probe is followed by the DOM
\* capture, and after an error of the DOM capture, after a failed service
\* call and after an extraction that found nothing the result is None.
C16_NeverRaises ==
    /\ pc = "idle" \/ InProgress \/ pc = "done"
    /\ pc = "capturing" => heal.probe = "raised"
    /\ pc = "done" =>
           /\ heal.result \in {None, locator, corrected}
           /\ (heal.probe = "raised" /\ ~heal.captured) => heal.result = None
           /\ (heal.called /\ heal.response = None) => heal.result = None
           /\ (heal.extracted /\ corrected = None) => heal.result = None

\* C16 witness: the DOM capture raised after the probe had raised, and the
\* attempt is at its return statement with None.
C16_Witness ==
    /\ pc = "done" /\ heal.probe = "raised" /\ ~heal.captured
    /\ heal.result = None /\ Truthy(locator)

\* C18: whenever the probe has not found the element visible (the wait
\* raised, or is_visible returned False) and the DOM capture, if one was
\* made, did not fail, the service was called.
C18_UnconfirmedProbeRepairs ==
    (pc = "done" /\ (heal.probe = "hidden" \/ (heal.probe = "raised" /\ heal.captured)))
        => heal.called

\* C19: when a lookup of a key in one file returned a selector, a heal of
\* another key in another file then committed, and the first file is
\* unchanged, the same lookup made after the heal returns that selector.
C19_ResolutionStableAcrossHeal ==
    (/\ pc = "done" /\ heal.updated
     /\ last.op = "resolve" /\ last.result # None
     /\ last.key # element /\ last.file # file_name
     /\ disk[last.file] = heal.disk0[last.file])
        => Lookup(CacheAfterLoad(last.file), last.key) = last.result

\* The largest number of steps an attempt can still take from position p
\* with loop index a: the probe, the DOM capture, max_retries service
\* attempts with a sleep between them, the extraction and the commit.
StepsLeft(p, a) ==
    CASE p = "probing" -> 2 * max_retries + 3
      [] p = "capturing" -> 2 * max_retries + 2
      [] p = "calling" -> 2 * (max_retries - a) + 1
      [] p = "sleeping" -> 2 * (max_retries - a)
      [] p = "extracting" -> 2
      [] p = "committing" -> 1
      [] OTHER -> 0

\* C20, the steps: an attempt starts at the probe or returns at once; every
\* step of an attempt in progress lowers StepsLeft, so that no position is
\* taken twice (the service call once per loop index below max_retries) and
\* the probe, the DOM capture, the extraction and the commit happen at most
\* once; the return statement is left only to hand the result to the caller.
AttemptAdvances ==
    /\ (pc = "idle" /\ pc' # "idle") => pc' \in {"probing", "done"}
    /\ InProgress => (pc' # "idle" /\ StepsLeft(pc', attempt') < StepsLeft(pc, attempt))
    /\ pc = "calling" => attempt < max_retries
    /\ pc = "done" => (pc' = "idle" /\ last'.op = "heal" /\ last'.result = heal.result)
    /\ heal.probe # "none" => (heal'.probe = heal.probe \/ pc' = "idle")
    /\ (heal.updated /\ pc' # "idle") => (heal'.updated /\ disk' = disk)

\* C20: every attempt in progress reaches its return statement, in at most
\* 2 * max_retries + 3 steps after the lookup, with at most one probe, one
\* DOM capture, max_retries service attempts, one extraction and one commit,
\* and no position taken twice; there it has one result, None or a selector.
C20_AttemptTerminates == [][AttemptAdvances]_vars /\ (InProgress ~> pc = "done")

\* C20 witness: an attempt has returned after the probe, the DOM capture,
\* the service call, the extraction and the commit.
C20_Witness ==
    /\ pc = "done" /\ heal.probe = "raised" /\ heal.captured /\ heal.called
    /\ heal.extracted /\ heal.updated

\* Field n of a row, trimmed; the empty string when the row has no field n.
TrimmedField(row, n) == IF Len(row) >= n THEN Strip(row[n]) ELSE <<>>

\* The entries a file should load as: of the rows after the header row, those
\* whose key and selector are both non-empty after trimming, as trimmed, the
\* last row of a key counting.
ExpectedEntries(content) ==
    LET rows == csv_reader(content)
        data == {i \in 2..Len(rows) : /\ TrimmedField(rows[i], 1) # <<>>
                                       /\ TrimmedField(rows[i], 2) # <<>>}
        lastOf(k) == CHOOSE i \in data :
                         /\ TrimmedField(rows[i], 1) = k
                         /\ \A j \in data : TrimmedField(rows[j], 1) = k => j <= i
    IN  [k \in {TrimmedField(rows[i], 1) : i \in data} |-> TrimmedField(rows[lastOf(k)], 2)]

\* C17: a file loaded into the empty cache gives exactly the pairs of its
\* data rows whose key and selector are non-empty after trimming, trimmed,
\* the last row of a key winning; rows with an empty key or an empty
\* selector are skipped and the header row is no entry.
C17_LoadParsing ==
    (/\ pc = "idle" /\ last.op = "resolve" /\ last.load
     /\ loaded_files = {last.file} /\ disk[last.file] # NoFile)
        => locators = ExpectedEntries(disk[last.file])

\* C21: a selector get_values_from_csv(key, f) returns is the selector file
\* f holds for the key, also when another loaded file holds the key with
\* another selector; a key an update has set since the cache was cleared is
\* left aside.
C21_ResolveReturnsSelectorOfFile ==
    (pc = "idle" /\ last.op = "resolve" /\ last.result # None /\ last.key \notin healed)
        => last.result = PersistedSelector(last.file, last.key)

\* C23: with ENABLE_OPENAI_SELF_HEALING False no attempt calls the service,
\* invokes update_locator or changes a source file, whatever the probe does.
C23_FlagDisablesSelfHealing ==
    ~ENABLE_OPENAI_SELF_HEALING
        => /\ pc \notin {"capturing", "calling", "sleeping", "extracting", "committing"}
           /\ ~heal.called /\ ~heal.updated
           /\ pc = "done" => disk = heal.disk0

\* Both workers have finished updates of different keys of one file, and
\* both saves wrote every line.
BothUpdated ==
    /\ \A w \in Workers : workers[w].pc = "done" /\ workers[w].outcome[1] = "ok"
    /\ workers[1].file_name = workers[2].file_name
    /\ workers[1].element_name # workers[2].element_name

\* The file after update_locator(k, s, _) ran alone on a file with the
\* given content.
AfterUpdate(content, k, s) == Concat(SaveLines(DictSet(load_csv(content), k, s)))

\* C22, the interleaved case: both workers reloaded before either opened the
\* file for writing, and their saves did not overlap.
Interleaved ==
    /\ BothUpdated
    /\ \A w \in Workers : workers[w].early /\ ~workers[w].overlapped

\* C22, the sequential case: one worker reloaded after the other had finished.
Sequential == BothUpdated /\ \E w \in Workers : workers[w].sequel

====
